---- MODULE Spec2Model ----
(***************************************************************************)
(* Lesson production pipeline of main.py: the content plan file, the      *)
(* in-memory plan, and the control flow of main() and                      *)
(* produce_lesson_videos(), one step per collaborator call or file         *)
(* operation.  Lessons are identified by their position in                 *)
(* plan['lessons']; chapter, part and title never change and are left out. *)
(* The short-form title of produce_lesson_videos() is a computation on     *)
(* texts of its own: TitleSpec runs it on highlights and lesson titles     *)
(* given as sequences of characters.                                       *)
(***************************************************************************)
EXTENDS Integers, Sequences, FiniteSets, TLC

\* ---- bounds ----
NumLessons == 3      \* lessons in a generated curriculum
MaxQuota == 2        \* largest value of LESSONS_PER_RUN explored
MaxRuns == 3         \* invocations of main() explored
MaxSlides == 1       \* long_form_slides returned by the content provider
MaxOver == 2         \* characters by which a text exceeds or misses the cut
MaxGap == 2          \* whitespace characters between two words of a text
MaxPad == 1          \* whitespace characters around a highlight

Null == "null"

\* the identifier the platform gives an upload of lesson i; every upload gets
\* its own
VideoId(variant, i) ==
  IF variant = "long"
    THEN <<"L1", "L2", "L3", "L4", "L5", "L6">>[i]
    ELSE <<"S1", "S2", "S3", "S4", "S5", "S6">>[i]

VARIABLES
  LESSONS_PER_RUN,  \* main.py:23, the per-run quota: the source sets 1, and
                    \*   every value in 1..MaxQuota is explored
  disk,             \* CONTENT_PLAN_FILE: [exists, lessons, wf]
  lastSaved,        \* history: the last document written to its end
  plan,             \* main(): plan (NoPlan before get_content_plan returns)
  pc,               \* position of the process in main()/produce_lesson_videos()
  selected,         \* pending_lessons[:LESSONS_PER_RUN], as lesson indices
  idx,              \* position of the for loop in selected
  nslides,          \* len(lesson_content['long_form_slides'])
  slide,            \* slides rendered so far by the enumerate loop
  long_video_id,    \* produce_lesson_videos(): long_video_id
  video_id,         \* main(): video_id
  runs,             \* history: number of runs started
  startDisk,        \* history: the document when the run started
  startPlan,        \* history: the plan get_content_plan returned
  calls,            \* history: <<collaborator, result>> of each call of the current attempt
  called,           \* history: the collaborators called in this run
  attempted,        \* history: lessons passed to produce_lesson_videos
  outcomes,         \* history: how each attempt ended: <<"id" | "null" | "raised",
                    \*          what the last collaborator call returned,
                    \*          whether every create_video call returned True>>
  saves,            \* history: update_content_plan calls that returned
  fatal,            \* history: what reached the outer except of main()
  cleaned,          \* history: the .wav cleanup: "no", "ok", "failed"
  exit,             \* history: how the last run ended
  slept             \* history: time.sleep was called since the run started
                    \*          or since update_content_plan last returned

\* the short-form title of produce_lesson_videos (main.py:97 and 141-148)
VARIABLES
  short_form_highlight,  \* lesson_content's entry: [kind, text], kind is
                         \*   "absent" (no such key), "none" or "str"
  title,                 \* lesson['title']
  highlight,             \* main.py:141-143, highlight
  short_title,           \* main.py:144, short_title
  sent_title,            \* main.py:148, the title given to upload_to_youtube
  tpc                    \* position: "script", "title", "upload", "sent", "raised"

tvars == <<short_form_highlight, title, highlight, short_title, sent_title, tpc>>

vars == <<tvars, slept, LESSONS_PER_RUN, disk, lastSaved, plan, pc, selected, idx, nslides,
          slide, long_video_id, video_id, runs, startDisk, startPlan, calls,
          called, attempted, outcomes, saves, fatal, cleaned, exit>>

NoPlan == <<"no plan">>
NoFile == [exists |-> FALSE, lessons |-> <<>>, wf |-> FALSE]

\* ---- the plan document ----
Lesson(s, y) == [status |-> s, youtube_id |-> y]

\* json.dump of one lesson entry, and json.load of it
JsonDump(l) == <<l.status, l.youtube_id>>
JsonLoad(e) == Lesson(e[1], e[2])

\* the document json.dump(plan) writes when it runs to its end
Document(p) ==
  [exists |-> TRUE, lessons |-> [i \in 1..Len(p) |-> JsonDump(p[i])], wf |-> TRUE]

\* the plan json.load returns for a well-formed document
Parsed(d) == [i \in 1..Len(d.lessons) |-> JsonLoad(d.lessons[i])]

\* open(CONTENT_PLAN_FILE, 'w'): the file is created or truncated
Truncated == [exists |-> TRUE, lessons |-> <<>>, wf |-> FALSE]

\* the curriculum collaborator's plan: every lesson pending, no youtube_id
NewPlan == [i \in 1..NumLessons |-> Lesson("pending", Null)]

\* variant of PendingFrom: the status test of the comprehension is missing
PendingFromNoFilter(p, i) == [k \in 1..(Len(p) + 1 - i) |-> i + k - 1]

RECURSIVE PendingFrom(_, _)
PendingFrom(p, i) ==
  IF i > Len(p) THEN <<>>
  ELSE IF p[i].status = "pending" THEN <<i>> \o PendingFrom(p, i + 1)
       ELSE PendingFrom(p, i + 1)

\* main.py:166, indices of the pending lessons in plan order
PendingLessons(p) == PendingFrom(p, 1)

\* variant of Slice: the loop runs over pending_lessons, not over the slice
NoSlice(s, n) == s

\* main.py:172, pending_lessons[:LESSONS_PER_RUN]
Slice(s, n) == IF Len(s) <= n THEN s ELSE SubSeq(s, 1, n)

Cur == selected[idx]

\* ---- a run of main() ----
\* no short-form title is being built
TitleIdle ==
  /\ short_form_highlight = [kind |-> "absent", text |-> <<>>]
  /\ title = <<>>
  /\ highlight = <<>>
  /\ short_title = <<>>
  /\ sent_title = <<>>
  /\ tpc = "idle"

\* no run of main() has started and there is no CONTENT_PLAN_FILE
ProcessIdle ==
  /\ disk = NoFile
  /\ lastSaved = NoFile
  /\ plan = NoPlan
  /\ pc = "idle"
  /\ selected = <<>>
  /\ idx = 0
  /\ nslides = 0
  /\ slide = 0
  /\ long_video_id = Null
  /\ video_id = Null
  /\ runs = 0
  /\ startDisk = NoFile
  /\ startPlan = NoPlan
  /\ calls = <<>>
  /\ called = {}
  /\ attempted = <<>>
  /\ outcomes = <<>>
  /\ saves = 0
  /\ fatal = "none"
  /\ cleaned = "no"
  /\ exit = "none"
  /\ slept = FALSE

Init ==
  /\ LESSONS_PER_RUN \in 1..MaxQuota
  /\ ProcessIdle
  /\ TitleIdle

\* the local state of the process, as it is when main() is entered
ResetLocals ==
  /\ plan' = NoPlan
  /\ selected' = <<>>
  /\ idx' = 0
  /\ nslides' = 0
  /\ slide' = 0
  /\ long_video_id' = Null
  /\ video_id' = Null
  /\ startPlan' = NoPlan
  /\ calls' = <<>>
  /\ called' = {}
  /\ attempted' = <<>>
  /\ outcomes' = <<>>
  /\ saves' = 0
  /\ fatal' = "none"
  /\ cleaned' = "no"
  /\ slept' = FALSE

\* the process is started: main() is entered
StartRun ==
  /\ pc \in {"idle", "done"}
  /\ runs < MaxRuns
  /\ runs' = runs + 1
  /\ pc' = "mkdir"
  /\ startDisk' = disk
  /\ exit' = "running"
  /\ ResetLocals
  /\ UNCHANGED <<tvars, LESSONS_PER_RUN, disk, lastSaved>>

\* the process is terminated from outside while main() runs
Kill ==
  /\ pc \notin {"idle", "done"}
  /\ pc' = "idle"
  /\ exit' = "killed"
  /\ ResetLocals
  /\ UNCHANGED <<tvars, LESSONS_PER_RUN, disk, lastSaved, runs, startDisk>>

\* an exception reaches the except clause of main()'s outer try
ToCritical(what) ==
  /\ pc' = "critical"
  /\ fatal' = what

\* OUTPUT_DIR.mkdir(exist_ok=True)
MkDir ==
  /\ pc = "mkdir"
  /\ \/ pc' = "load" /\ UNCHANGED fatal
     \/ ToCritical("mkdir")
  /\ UNCHANGED <<tvars, slept, LESSONS_PER_RUN, disk, lastSaved, plan, selected, idx, nslides,
                 slide, long_video_id, video_id, runs, startDisk, startPlan,
                 calls, called, attempted, outcomes, saves, cleaned, exit>>

\* variant of GetContentPlan: a document with no pending lesson left is
\* treated like a missing one and a new curriculum is generated
GetContentPlanRegenerate ==
  /\ pc = "load"
  /\ IF ~disk.exists
       THEN pc' = "curriculum" /\ UNCHANGED <<plan, fatal>>
       ELSE IF disk.wf
              THEN IF PendingLessons(Parsed(disk)) = <<>>
                     THEN pc' = "curriculum" /\ UNCHANGED <<plan, fatal>>
                     ELSE plan' = Parsed(disk) /\ pc' = "select"
                            /\ UNCHANGED fatal
              ELSE ToCritical("load") /\ UNCHANGED plan
  /\ UNCHANGED <<tvars, slept, LESSONS_PER_RUN, disk, lastSaved, selected, idx, nslides,
                 slide, long_video_id, video_id, runs, startDisk, startPlan,
                 calls, called, attempted, outcomes, saves, cleaned, exit>>

\* variant of GetContentPlan: a document that cannot be parsed is treated
\* like a missing one and a new curriculum is generated over it
GetContentPlanRecover ==
  /\ pc = "load"
  /\ IF ~disk.exists \/ ~disk.wf
       THEN pc' = "curriculum" /\ UNCHANGED <<plan, fatal>>
       ELSE plan' = Parsed(disk) /\ pc' = "select" /\ UNCHANGED fatal
  /\ UNCHANGED <<tvars, slept, LESSONS_PER_RUN, disk, lastSaved, selected, idx, nslides,
                 slide, long_video_id, video_id, runs, startDisk, startPlan,
                 calls, called, attempted, outcomes, saves, cleaned, exit>>

\* get_content_plan(): the exists() test, and json.load of an existing file
GetContentPlan ==
  /\ pc = "load"
  /\ IF ~disk.exists
       THEN pc' = "curriculum" /\ UNCHANGED <<plan, fatal>>
       ELSE IF disk.wf
              THEN plan' = Parsed(disk) /\ pc' = "select" /\ UNCHANGED fatal
              ELSE ToCritical("load") /\ UNCHANGED plan
  /\ UNCHANGED <<tvars, slept, LESSONS_PER_RUN, disk, lastSaved, selected, idx, nslides,
                 slide, long_video_id, video_id, runs, startDisk, startPlan,
                 calls, called, attempted, outcomes, saves, cleaned, exit>>

\* variant of GenerateCurriculum: the new plan is returned without being
\* written to CONTENT_PLAN_FILE
GenerateCurriculumNoPersist ==
  /\ pc = "curriculum"
  /\ called' = called \cup {"generate_curriculum"}
  /\ \/ plan' = NewPlan /\ pc' = "select" /\ UNCHANGED fatal
     \/ ToCritical("load") /\ UNCHANGED plan
  /\ UNCHANGED <<tvars, slept, LESSONS_PER_RUN, disk, lastSaved, selected, idx, nslides,
                 slide, long_video_id, video_id, runs, startDisk, startPlan,
                 calls, attempted, outcomes, saves, cleaned, exit>>

\* get_content_plan(): new_plan = generate_curriculum()
GenerateCurriculum ==
  /\ pc = "curriculum"
  /\ called' = called \cup {"generate_curriculum"}
  /\ \/ plan' = NewPlan /\ pc' = "new_open" /\ UNCHANGED fatal
     \/ ToCritical("load") /\ UNCHANGED plan
  /\ UNCHANGED <<tvars, slept, LESSONS_PER_RUN, disk, lastSaved, selected, idx, nslides,
                 slide, long_video_id, video_id, runs, startDisk, startPlan,
                 calls, attempted, outcomes, saves, cleaned, exit>>

\* open(CONTENT_PLAN_FILE, 'w') of either writer
OpenForWrite(next) ==
  /\ disk' = Truncated
  /\ pc' = next
  /\ UNCHANGED <<tvars, slept, LESSONS_PER_RUN, lastSaved, plan, selected, idx, nslides,
                 slide, long_video_id, video_id, runs, startDisk, startPlan,
                 calls, called, attempted, outcomes, saves, fatal, cleaned,
                 exit>>

\* json.dump(plan, f) one entry further; done is TRUE when the file is closed
DumpStep(done) ==
  IF Len(disk.lessons) < Len(plan)
    THEN /\ disk' = [disk EXCEPT !.lessons =
                       Append(@, JsonDump(plan[Len(disk.lessons) + 1]))]
         /\ UNCHANGED lastSaved
         /\ done = FALSE
    ELSE /\ disk' = [disk EXCEPT !.wf = TRUE]
         /\ lastSaved' = disk'
         /\ done = TRUE

\* get_content_plan(): the new plan is written
NewOpen ==
  /\ pc = "new_open"
  /\ OpenForWrite("new_dump")

NewDump ==
  /\ pc = "new_dump"
  /\ \E done \in BOOLEAN :
       /\ DumpStep(done)
       /\ pc' = IF done THEN "select" ELSE "new_dump"
  /\ UNCHANGED <<tvars, slept, LESSONS_PER_RUN, plan, selected, idx, nslides, slide,
                 long_video_id, video_id, runs, startDisk, startPlan, calls,
                 called, attempted, outcomes, saves, fatal, cleaned, exit>>

\* get_content_plan(): open or json.dump raises (the file stays as it is)
NewRaise ==
  /\ pc \in {"new_open", "new_dump"}
  /\ ToCritical("load")
  /\ UNCHANGED <<tvars, slept, LESSONS_PER_RUN, disk, lastSaved, plan, selected, idx, nslides,
                 slide, long_video_id, video_id, runs, startDisk, startPlan,
                 calls, called, attempted, outcomes, saves, cleaned, exit>>

\* main.py:166-172: pending_lessons, the early return, the slice
Select ==
  /\ pc = "select"
  /\ startPlan' = plan
  /\ IF PendingLessons(plan) = <<>>
       THEN /\ pc' = "done"
            /\ exit' = "return"
            /\ UNCHANGED <<selected, idx>>
       ELSE /\ selected' = Slice(PendingLessons(plan), LESSONS_PER_RUN)
            /\ idx' = 1
            /\ pc' = "for"
            /\ UNCHANGED exit
  /\ UNCHANGED <<tvars, slept, LESSONS_PER_RUN, disk, lastSaved, plan, nslides, slide,
                 long_video_id, video_id, runs, startDisk, calls, called,
                 attempted, outcomes, saves, fatal, cleaned>>

\* the for statement: the next selected lesson goes to produce_lesson_videos
ForNext ==
  /\ pc = "for"
  /\ IF idx <= Len(selected)
       THEN /\ attempted' = Append(attempted, Cur)
            /\ calls' = <<>>
                      /\ pc' = "content"
       ELSE /\ pc' = "cleanup"
            /\ UNCHANGED <<attempted, calls>>
  /\ UNCHANGED <<tvars, slept, LESSONS_PER_RUN, disk, lastSaved, plan, selected, idx, nslides,
                 slide, long_video_id, video_id, runs, startDisk, startPlan,
                 calls, called, outcomes, saves, fatal, cleaned, exit>>

\* ---- produce_lesson_videos(lesson) ----
\* what a step of produce_lesson_videos leaves alone
ProduceFrame ==
  UNCHANGED <<tvars, LESSONS_PER_RUN, disk, lastSaved, plan, selected, idx, runs,
              startDisk, startPlan, attempted, outcomes, saves, fatal, cleaned,
              exit>>

\* a collaborator is called and returns res (or "raise")
Called(fn, res) ==
  /\ calls' = Append(calls, <<fn, res>>)
  /\ called' = called \cup {fn}
  /\ slept' = (slept \/ fn = "sleep")

\* the call raises: main()'s inner except clause catches it
Raises(fn) ==
  /\ Called(fn, "raise")
  /\ pc' = "except_lesson"
  /\ UNCHANGED <<nslides, slide, long_video_id, video_id>>

\* the call returns and production goes on at next
Returns(fn, res, next) ==
  /\ Called(fn, res)
  /\ pc' = next
  /\ UNCHANGED <<nslides, slide, long_video_id, video_id>>

\* variant of GenerateContent: the exception is swallowed and production
\* goes on without content
GenerateContentSwallow ==
  /\ pc = "content"
  /\ \/ \E n \in 0..MaxSlides :
          /\ Called("generate_lesson_content", "ok")
          /\ nslides' = n
          /\ slide' = 0
          /\ pc' = "tts_long"
          /\ UNCHANGED <<long_video_id, video_id>>
     \/ Returns("generate_lesson_content", "raise", "tts_long")
  /\ ProduceFrame

\* main.py:48, lesson_content = generate_lesson_content(lesson['title'])
GenerateContent ==
  /\ pc = "content"
  /\ \/ \E n \in 0..MaxSlides :
          /\ Called("generate_lesson_content", "ok")
          /\ nslides' = n
          /\ slide' = 0
          /\ pc' = "tts_long"
          /\ UNCHANGED <<long_video_id, video_id>>
     \/ Raises("generate_lesson_content")
  /\ ProduceFrame

\* main.py:66
TextToSpeechLong ==
  /\ pc = "tts_long"
  /\ \/ Returns("text_to_speech", "ok", "slides")
     \/ Raises("text_to_speech")
  /\ ProduceFrame

\* main.py:73-82, one pass of the loop over intro + content slides + outro
GenerateSlide ==
  /\ pc = "slides"
  /\ slide < nslides + 2
  /\ \/ /\ Called("generate_visuals", "ok")
        /\ slide' = slide + 1
        /\ pc' = IF slide + 1 = nslides + 2 THEN "video_long" ELSE "slides"
        /\ UNCHANGED <<nslides, long_video_id, video_id>>
     \/ Raises("generate_visuals")
  /\ ProduceFrame

\* main.py:86, the value create_video returns is not looked at
CreateVideoLong ==
  /\ pc = "video_long"
  /\ \/ \E ok \in {"true", "false"} : Returns("create_video_long", ok, "thumb_long")
     \/ Raises("create_video_long")
  /\ ProduceFrame

\* main.py:88
ThumbnailLong ==
  /\ pc = "thumb_long"
  /\ \/ Returns("generate_visuals", "ok", "tts_short")
     \/ Raises("generate_visuals")
  /\ ProduceFrame

\* main.py:99
TextToSpeechShort ==
  /\ pc = "tts_short"
  /\ \/ Returns("text_to_speech", "ok", "slide_short")
     \/ Raises("text_to_speech")
  /\ ProduceFrame

\* main.py:107
GenerateSlideShort ==
  /\ pc = "slide_short"
  /\ \/ Returns("generate_visuals", "ok", "video_short")
     \/ Raises("generate_visuals")
  /\ ProduceFrame

\* main.py:117
CreateVideoShort ==
  /\ pc = "video_short"
  /\ \/ \E ok \in {"true", "false"} : Returns("create_video_short", ok, "thumb_short")
     \/ Raises("create_video_short")
  /\ ProduceFrame

\* main.py:118
ThumbnailShort ==
  /\ pc = "thumb_short"
  /\ \/ Returns("generate_visuals", "ok", "upload_long")
     \/ Raises("generate_visuals")
  /\ ProduceFrame

\* variant of UploadLong: the result of the long-form upload is not tested
UploadLongUnchecked ==
  /\ pc = "upload_long"
  /\ \/ \E id \in {VideoId("long", Cur), Null} :
          /\ Called("upload_long", id)
          /\ long_video_id' = id
          /\ pc' = "sleep"
          /\ UNCHANGED <<nslides, slide, video_id>>
     \/ Raises("upload_long")
  /\ ProduceFrame

\* main.py:130-138 and 154: the long-form upload and the test of its result
UploadLong ==
  /\ pc = "upload_long"
  /\ \/ /\ Called("upload_long", VideoId("long", Cur))
        /\ long_video_id' = VideoId("long", Cur)
        /\ pc' = "sleep"
        /\ UNCHANGED <<nslides, slide, video_id>>
     \/ /\ Called("upload_long", Null)
        /\ video_id' = Null
        /\ pc' = "assign"
        /\ UNCHANGED <<nslides, slide, long_video_id>>
     \/ Raises("upload_long")
  /\ ProduceFrame

\* main.py:140, time.sleep(30)
Sleep ==
  /\ pc = "sleep"
  /\ Returns("sleep", "ok", "upload_short")
  /\ ProduceFrame

\* variant of UploadShort: the identifier of the short-form upload is what
\* produce_lesson_videos returns
UploadShortReturnsShortId ==
  /\ pc = "upload_short"
  /\ \/ \E res \in {VideoId("short", Cur), Null} :
          /\ Called("upload_short", res)
          /\ video_id' = res
          /\ pc' = "assign"
          /\ UNCHANGED <<nslides, slide, long_video_id>>
     \/ Raises("upload_short")
  /\ ProduceFrame

\* main.py:146-153: the short-form upload, then return long_video_id
UploadShort ==
  /\ pc = "upload_short"
  /\ \/ \E res \in {VideoId("short", Cur), Null} :
          /\ Called("upload_short", res)
          /\ video_id' = long_video_id
          /\ pc' = "assign"
          /\ UNCHANGED <<nslides, slide, long_video_id>>
     \/ Raises("upload_short")
  /\ ProduceFrame

\* ---- main(): after produce_lesson_videos ----
\* what the last collaborator call of produce_lesson_videos returned
LastResult == calls[Len(calls)][2]

\* no create_video call of the attempt returned False
Assembled == \A k \in 1..Len(calls) : calls[k][2] # "false"

\* the record of an attempt that ended with kind
Outcome(kind) == <<kind, LastResult, Assembled>>

\* variant of Assign: update_content_plan sits in the except clause, so
\* the plan is not written after an attempt that returned
AssignNoSave ==
  /\ pc = "assign"
  /\ IF video_id # Null
       THEN /\ plan' = [plan EXCEPT ![Cur] = Lesson("complete", video_id)]
            /\ outcomes' = Append(outcomes, Outcome("id"))
       ELSE /\ outcomes' = Append(outcomes, Outcome("null"))
            /\ UNCHANGED plan
  /\ calls' = <<>>
  /\ nslides' = 0
  /\ slide' = 0
  /\ long_video_id' = Null
  /\ video_id' = Null
  /\ idx' = idx + 1
  /\ pc' = "for"
  /\ UNCHANGED <<tvars, slept, LESSONS_PER_RUN, disk, lastSaved, selected, runs, startDisk,
                 startPlan, called, attempted, saves, fatal, cleaned, exit>>

\* main.py:175-180: the lesson is marked complete when video_id is truthy
Assign ==
  /\ pc = "assign"
  /\ IF video_id # Null
       THEN /\ plan' = [plan EXCEPT ![Cur] = Lesson("complete", video_id)]
            /\ outcomes' = Append(outcomes, Outcome("id"))
       ELSE /\ outcomes' = Append(outcomes, Outcome("null"))
            /\ UNCHANGED plan
  /\ calls' = <<>>
  /\ nslides' = 0
  /\ slide' = 0
  /\ pc' = "save_open"
  /\ UNCHANGED <<tvars, slept, LESSONS_PER_RUN, disk, lastSaved, selected, idx,
                 long_video_id, video_id, runs, startDisk, startPlan,
                 called, attempted, saves, fatal, cleaned, exit>>

\* variant of ExceptLesson: the inner except clause raises again, so the
\* exception leaves the for loop
ExceptLessonReraise ==
  /\ pc = "except_lesson"
  /\ outcomes' = Append(outcomes, Outcome("raised"))
  /\ calls' = <<>>
  /\ nslides' = 0
  /\ slide' = 0
  /\ ToCritical("lesson")
  /\ UNCHANGED <<tvars, slept, LESSONS_PER_RUN, disk, lastSaved, plan, selected, idx,
                 long_video_id, video_id, runs, startDisk, startPlan,
                 called, attempted, saves, cleaned, exit>>

\* main.py:181-183: the inner except clause, then the finally clause
ExceptLesson ==
  /\ pc = "except_lesson"
  /\ outcomes' = Append(outcomes, Outcome("raised"))
  /\ calls' = <<>>
  /\ nslides' = 0
  /\ slide' = 0
  /\ pc' = "save_open"
  /\ UNCHANGED <<tvars, slept, LESSONS_PER_RUN, disk, lastSaved, plan, selected, idx,
                 long_video_id, video_id, runs, startDisk, startPlan,
                 called, attempted, saves, fatal, cleaned, exit>>

\* update_content_plan(plan), called from the finally clause
SaveOpen ==
  /\ pc = "save_open"
  /\ OpenForWrite("save_dump")

SaveDump ==
  /\ pc = "save_dump"
  /\ \E done \in BOOLEAN :
       /\ DumpStep(done)
       /\ IF done
            THEN /\ pc' = "for"
                 /\ idx' = idx + 1
                 /\ saves' = saves + 1
                 /\ long_video_id' = Null
                 /\ video_id' = Null
                 /\ slept' = FALSE
            ELSE /\ pc' = "save_dump"
                 /\ UNCHANGED <<idx, saves, long_video_id, video_id, slept>>
  /\ UNCHANGED <<tvars, LESSONS_PER_RUN, plan, selected, nslides, slide, runs,
                 startDisk, startPlan, calls, called, attempted, outcomes, fatal,
                 cleaned, exit>>

\* update_content_plan raises: the exception leaves the for loop
SaveRaise ==
  /\ pc \in {"save_open", "save_dump"}
  /\ ToCritical("save")
  /\ UNCHANGED <<tvars, slept, LESSONS_PER_RUN, disk, lastSaved, plan, selected, idx, nslides,
                 slide, long_video_id, video_id, runs, startDisk, startPlan,
                 calls, called, attempted, outcomes, saves, cleaned, exit>>

\* main.py:188-190: the outer except clause
Critical ==
  /\ pc = "critical"
  /\ pc' = "cleanup"
  /\ UNCHANGED <<tvars, slept, LESSONS_PER_RUN, disk, lastSaved, plan, selected, idx, nslides,
                 slide, long_video_id, video_id, runs, startDisk, startPlan,
                 calls, called, attempted, outcomes, saves, fatal, cleaned, exit>>

\* main.py:192-197: the .wav cleanup, whose exceptions are caught
Cleanup ==
  /\ pc = "cleanup"
  /\ cleaned' \in {"ok", "failed"}
  /\ pc' = "done"
  /\ exit' = "end"
  /\ UNCHANGED <<tvars, slept, LESSONS_PER_RUN, disk, lastSaved, plan, selected, idx, nslides,
                 slide, long_video_id, video_id, runs, startDisk, startPlan,
                 calls, called, attempted, outcomes, saves, fatal>>

Next ==
  \/ StartRun \/ Kill \/ MkDir \/ GetContentPlan \/ GenerateCurriculum
  \/ NewOpen \/ NewDump \/ NewRaise \/ Select \/ ForNext
  \/ GenerateContent \/ TextToSpeechLong \/ GenerateSlide \/ CreateVideoLong
  \/ ThumbnailLong \/ TextToSpeechShort \/ GenerateSlideShort
  \/ CreateVideoShort \/ ThumbnailShort \/ UploadLong \/ Sleep \/ UploadShort
  \/ Assign \/ ExceptLesson \/ SaveOpen \/ SaveDump \/ SaveRaise
  \/ Critical \/ Cleanup

Spec == Init /\ [][Next]_vars

\* ---- the short-form title (main.py:97 and 141-148) ----
\* texts are sequences of characters
ShortTitleMax == 90

\* the characters str.strip() and str.rstrip() remove
IsSpace(c) == c \in {" ", "\t", "\n"}

\* s.rstrip(): whitespace is dropped from the end
RECURSIVE RStrip(_)
RStrip(s) ==
  IF s = <<>> THEN <<>>
  ELSE IF IsSpace(s[Len(s)]) THEN RStrip(SubSeq(s, 1, Len(s) - 1))
       ELSE s

\* s.lstrip(): whitespace is dropped from the start
RECURSIVE LStrip(_)
LStrip(s) ==
  IF s = <<>> THEN <<>>
  ELSE IF IsSpace(s[1]) THEN LStrip(Tail(s))
       ELSE s

\* s.strip()
Strip(s) == LStrip(RStrip(s))

\* lesson_content.get('short_form_highlight') or '': None and '' give ''
GetOrEmpty(v) == IF v.kind = "str" THEN v.text ELSE <<>>

\* "AI Quick Tip: " and " #Shorts"
FallbackPrefix ==
  <<"A", "I", " ", "Q", "u", "i", "c", "k", " ", "T", "i", "p", ":", " ">>
Suffix == <<" ", "#", "S", "h", "o", "r", "t", "s">>

\* variant of Cut: the highlight is not cut
CutNothing(h) == h

\* highlight[:90]
Cut(h) == Slice(h, ShortTitleMax)

\* n times the character c
Chars(n, c) == [i \in 1..n |-> c]

\* lengths next to the cut at c, and the shortest ones
Near(c) ==
  {n \in 0..(c + MaxOver) : n <= MaxOver \/ n >= c - MaxOver}

\* a word of n letters, g whitespace characters, a word of k letters
TwoWords(n, g, k) == Chars(n, "x") \o Chars(g, " ") \o Chars(k, "x")

\* the values lesson_content can hold for the highlight
Highlights ==
  {[kind |-> "absent", text |-> <<>>], [kind |-> "none", text |-> <<>>]}
  \cup {[kind |-> "str",
          text |-> Chars(l, " ") \o TwoWords(n, g, k) \o Chars(t, " ")] :
           l \in 0..MaxPad, t \in 0..MaxPad, n \in Near(ShortTitleMax),
           g \in 0..MaxGap, k \in 0..MaxOver}

\* the lesson titles: near the cut once the fallback prefix is put in front
Titles ==
  {TwoWords(n, g, 1) : n \in Near(ShortTitleMax - Len(FallbackPrefix)),
                       g \in 0..MaxGap}

TitleInit ==
  /\ LESSONS_PER_RUN = 1
  /\ ProcessIdle
  /\ short_form_highlight \in Highlights
  /\ title \in Titles
  /\ highlight = <<>>
  /\ short_title = <<>>
  /\ sent_title = <<>>
  /\ tpc = "script"

\* what the steps of the title leave alone
TitleFrame ==
  UNCHANGED <<LESSONS_PER_RUN, disk, lastSaved, plan, pc, selected, idx,
              nslides, slide, long_video_id, video_id, runs, startDisk,
              startPlan, calls, called, attempted, outcomes, saves, fatal,
              cleaned, exit, slept, short_form_highlight, title>>

\* main.py:97, short_script = f"{lesson_content['short_form_highlight']}":
\* a KeyError when the key is absent
ShortScript ==
  /\ tpc = "script"
  /\ tpc' = IF short_form_highlight.kind = "absent" THEN "raised" ELSE "title"
  /\ UNCHANGED <<highlight, short_title, sent_title>>
  /\ TitleFrame

\* main.py:141-144
BuildShortTitle ==
  /\ tpc = "title"
  /\ highlight' =
       LET stripped == Strip(GetOrEmpty(short_form_highlight))
       IN  IF stripped = <<>> THEN FallbackPrefix \o title ELSE stripped
  /\ short_title' = RStrip(Cut(highlight')) \o Suffix
  /\ tpc' = "upload"
  /\ UNCHANGED sent_title
  /\ TitleFrame

\* main.py:146-148, upload_to_youtube(short_video_path, short_title.strip(), ...)
UploadShortTitle ==
  /\ tpc = "upload"
  /\ sent_title' = Strip(short_title)
  /\ tpc' = "sent"
  /\ UNCHANGED <<highlight, short_title>>
  /\ TitleFrame

TitleNext == ShortScript \/ BuildShortTitle \/ UploadShortTitle

TitleSpec == TitleInit /\ [][TitleNext]_vars

\* ---- properties ----
Pending(p) == {i \in 1..Len(p) : p[i].status = "pending"}

\* the status a document holds for lesson i
DiskStatus(d, i) == d.lessons[i][1]

\* the run has left the for loop (or never entered it)
LoopLeft == pc \in {"critical", "cleanup", "done"}

\* C1: a lesson's status never goes from complete back to pending, neither in
\* the plan a run holds in memory nor from one written document to the next,
\* and a lesson the document at the start of a run holds as complete is never
\* passed to produce_lesson_videos in that run.
C1_StatusOnce ==
  /\ [](\A j \in 1..Len(attempted) :
          /\ startPlan[attempted[j]].status = "pending"
          /\ (startDisk.wf => DiskStatus(startDisk, attempted[j]) = "pending"))
  /\ [][/\ (plan # NoPlan /\ plan' # NoPlan) =>
             /\ Len(plan') = Len(plan)
             /\ \A i \in 1..Len(plan) :
                  /\ plan'[i].status \in {"pending", "complete"}
                  /\ plan[i].status = "complete" => plan'[i] = plan[i]
        /\ (lastSaved.exists /\ lastSaved' # lastSaved) =>
             /\ Len(lastSaved'.lessons) = Len(lastSaved.lessons)
             /\ \A i \in 1..Len(lastSaved.lessons) :
                  DiskStatus(lastSaved, i) = "complete"
                    => lastSaved'.lessons[i] = lastSaved.lessons[i]]_vars

\* a run that started with a completed lesson on disk is producing another
C1_Witness ==
  /\ pc = "content"
  /\ startDisk.wf
  /\ \E i \in 1..Len(startDisk.lessons) : DiskStatus(startDisk, i) = "complete"

\* C2: once the attempt of a selected lesson is over and its save has
\* returned, the document's entry for that lesson equals the in-memory entry,
\* at the loop boundary and all through the attempts that follow, whatever
\* their outcome (no write of the plan being in progress or having failed).
C2_PersistedAfterAttempt ==
  (plan # NoPlan /\ pc # "save_dump" /\ fatal = "none") =>
    \A j \in 1..Len(outcomes) :
      j < idx =>
        /\ disk.wf
        /\ Len(disk.lessons) = Len(plan)
        /\ disk.lessons[attempted[j]]
             = <<plan[attempted[j]].status, plan[attempted[j]].youtube_id>>

\* the first attempt returned an identifier, the second one raised, and the
\* loop is at its boundary after the second save
C2_Witness ==
  /\ pc = "for"
  /\ idx = 3
  /\ outcomes[1][1] = "id"
  /\ outcomes[2][1] = "raised"
  /\ DiskStatus(disk, attempted[1]) = "complete"

\* C3: when the run has left the for loop and no save has failed, every
\* selected lesson that follows an attempt which raised or returned a null
\* identifier has been passed to produce_lesson_videos.
C3_FailureIsolation ==
  (LoopLeft /\ fatal # "save") =>
    \A j \in 1..Len(outcomes) :
      (outcomes[j][1] \in {"raised", "null"} /\ j < Len(selected)) =>
        /\ Len(attempted) > j
        /\ attempted[j + 1] = selected[j + 1]

\* the second selected lesson is in production after the first one failed
C3_Witness ==
  /\ pc = "content"
  /\ Len(attempted) = 2
  /\ outcomes[1][1] \in {"raised", "null"}

\* C4: a run never attempts more than LESSONS_PER_RUN lessons and attempts
\* the pending lessons in plan order without skipping one; a run that started
\* with more than LESSONS_PER_RUN pending lessons and ran its loop to the end
\* has attempted exactly LESSONS_PER_RUN of them, and every other lesson that
\* was pending is pending in the document.
C4_QuotaRespected ==
  /\ Len(attempted) <= LESSONS_PER_RUN
  /\ \A j \in 1..Len(attempted) :
       /\ attempted[j] \in Pending(startPlan)
       /\ Cardinality({i \in Pending(startPlan) : i < attempted[j]}) = j - 1
  /\ (pc = "done" /\ fatal = "none" /\ startPlan # NoPlan
        /\ Cardinality(Pending(startPlan)) > LESSONS_PER_RUN) =>
       /\ Len(attempted) = LESSONS_PER_RUN
       /\ disk.wf
       /\ \A i \in Pending(startPlan) :
            (\A j \in 1..Len(attempted) : attempted[j] # i)
              => disk.lessons[i] = <<"pending", Null>>

\* three pending lessons, a quota of one, every collaborator succeeding: one
\* lesson is complete in the document and two are pending
C4_Witness ==
  /\ pc = "done"
  /\ fatal = "none"
  /\ LESSONS_PER_RUN = 1
  /\ Cardinality(Pending(startPlan)) = 3
  /\ outcomes = <<<<"id", VideoId("short", 1), TRUE>>>>
  /\ disk.wf
  /\ Cardinality({i \in 1..Len(disk.lessons) : DiskStatus(disk, i) = "complete"}) = 1
  /\ Cardinality({i \in 1..Len(disk.lessons) : DiskStatus(disk, i) = "pending"}) = 2

\* C5: within an attempt, a short-form upload is called only after a
\* long-form upload that returned an identifier, and nothing is uploaded
\* after a long-form upload that returned null or raised.
C5_ShortAfterLong ==
  \A k \in 1..Len(calls) :
    /\ calls[k][1] = "upload_short" =>
         \E q \in 1..(k - 1) :
           /\ calls[q][1] = "upload_long"
           /\ calls[q][2] \notin {Null, "raise"}
    /\ (calls[k][1] = "upload_long" /\ calls[k][2] \in {Null, "raise"}) =>
         k = Len(calls)

\* the short-form upload has been called
C5_Witness ==
  /\ calls # <<>>
  /\ calls[Len(calls)][1] = "upload_short"
  /\ \E q \in 1..Len(calls) : calls[q] = <<"upload_long", VideoId("long", Cur)>>

\* C6 (as claimed): a lesson whose attempt succeeded in every step except the
\* short-form upload, which returned null, is pending with no youtube_id in
\* the document after the run.
C6_ShortNullLeavesPending ==
  (pc = "done" /\ fatal = "none") =>
    \A j \in 1..Len(outcomes) :
      outcomes[j] = <<"id", Null, TRUE>> =>
        /\ disk.wf
        /\ disk.lessons[attempted[j]] = <<"pending", Null>>

\* C7: a run that starts on a document holding no pending lesson calls no
\* collaborator, passes no lesson to produce_lesson_videos, leaves the
\* document as it was, and ends right after the selection.
C7_NoPendingNoWork ==
  /\ [](( /\ pc \notin {"idle", "mkdir"}
          /\ startDisk.wf
          /\ \A i \in 1..Len(startDisk.lessons) :
               DiskStatus(startDisk, i) # "pending") =>
         /\ called = {}
         /\ attempted = <<>>
         /\ disk = startDisk
         /\ plan # NoPlan =>
              \A i \in 1..Len(plan) : plan[i].status # "pending")
  /\ [][(pc = "select" /\ Pending(plan) = {}) => pc' \in {"done", "idle"}]_vars

\* a run on a document whose lessons are all complete has ended
C7_Witness ==
  /\ pc = "done"
  /\ exit = "return"
  /\ startDisk.wf
  /\ Len(startDisk.lessons) = NumLessons
  /\ \A i \in 1..Len(startDisk.lessons) : DiskStatus(startDisk, i) = "complete"

\* C8: when generate_lesson_content raises, nothing else is called in that
\* attempt (in the first attempt of a run: no speech, image, assembly or
\* upload collaborator has been called in the run); and a run on a plan with
\* one pending lesson, whose only attempt ended that way and whose loop ran
\* to the end, leaves that lesson pending and the document as it was before
\* the run.
C8_ContentFailure ==
  /\ (calls # <<>> /\ calls[1] = <<"generate_lesson_content", "raise">>) =>
       /\ Len(calls) = 1
       /\ pc = "except_lesson"
       /\ Len(attempted) = 1 =>
            called \ {"generate_curriculum"} = {"generate_lesson_content"}
  /\ ( /\ pc = "done"
       /\ fatal = "none"
       /\ startDisk.wf
       /\ startPlan # NoPlan
       /\ Cardinality(Pending(startPlan)) = 1
       /\ outcomes = <<<<"raised", "raise", TRUE>>>>
       /\ called = {"generate_lesson_content"}) =>
       /\ plan[attempted[1]] = Lesson("pending", Null)
       /\ disk = startDisk
       /\ disk.lessons[attempted[1]] = <<"pending", Null>>

\* such a run has ended
C8_Witness ==
  /\ pc = "done"
  /\ fatal = "none"
  /\ startDisk.wf
  /\ Cardinality(Pending(startPlan)) = 1
  /\ outcomes = <<<<"raised", "raise", TRUE>>>>
  /\ called = {"generate_lesson_content"}

\* C9 (as claimed): when the process is terminated in a run that started on a
\* well-formed document, the document is complete and well-formed and is the
\* last one written to its end.
C9_CrashConsistent ==
  (pc = "idle" /\ exit = "killed" /\ startDisk.wf) =>
    /\ disk.wf
    /\ disk = lastSaved

\* C10 (as claimed): a run that has ended has attempted the cleanup.
C10_CleanupOnEveryPath ==
  pc = "done" => cleaned \in {"ok", "failed"}

\* C11: in a run that started on a document that exists and is not
\* well-formed, the load fails and the failure reaches the outer except of
\* main(): no lesson is passed to produce_lesson_videos, no collaborator (the
\* curriculum collaborator included) is called, no plan is held, and the
\* document stays as it was.
C11_CorruptPlanFatal ==
  (pc # "idle" /\ startDisk.exists /\ ~startDisk.wf) =>
    /\ pc \in {"mkdir", "load", "critical", "cleanup", "done"}
    /\ attempted = <<>>
    /\ called = {}
    /\ plan = NoPlan
    /\ saves = 0
    /\ disk = startDisk
    /\ LoopLeft => fatal \in {"mkdir", "load"}
    /\ pc = "done" => exit = "end"

\* a run on a document cut short by a terminated save has ended on the load
C11_Witness ==
  /\ pc = "done"
  /\ fatal = "load"
  /\ startDisk.exists
  /\ ~startDisk.wf
  /\ cleaned \in {"ok", "failed"}

\* C12: generate_curriculum is called only in a run that started with no
\* document, and every such run that gets past get_content_plan's exists()
\* test calls it; the plan it returns is written in full before the first
\* lesson is selected and is the document the first attempt runs on; a run
\* that started on an existing document works on exactly the plan parsed
\* from that document.
C12_CurriculumIffNoFile ==
  /\ "generate_curriculum" \in called => ~startDisk.exists
  /\ (pc \notin {"idle", "mkdir", "load", "curriculum"} /\ fatal # "mkdir") =>
       ("generate_curriculum" \in called <=> ~startDisk.exists)
  /\ (~startDisk.exists /\ pc = "select") =>
       /\ plan = NewPlan
       /\ attempted = <<>>
       /\ disk = Document(plan)
       /\ lastSaved = disk
  /\ (~startDisk.exists /\ attempted # <<>>) =>
       /\ startPlan = NewPlan
       /\ lastSaved.wf
       /\ (saves = 0 /\ pc # "save_dump" /\ fatal # "save") =>
            disk = Document(startPlan)
  /\ (startDisk.exists /\ pc \notin {"idle", "mkdir", "load"} /\ plan # NoPlan) =>
       /\ startDisk.wf
       /\ "generate_curriculum" \notin called
       /\ pc = "select" => plan = Parsed(startDisk) /\ disk = startDisk
       /\ startPlan # NoPlan => startPlan = Parsed(startDisk)

\* the first lesson of a newly generated and written curriculum is in
\* production
C12_Witness ==
  /\ pc = "content"
  /\ ~startDisk.exists
  /\ "generate_curriculum" \in called
  /\ attempted = <<1>>
  /\ disk = Document(NewPlan)

\* s starts with the text p
StartsWith(s, p) == Len(s) >= Len(p) /\ SubSeq(s, 1, Len(p)) = p

\* C13 (as claimed): for a highlight whose trimmed length exceeds 90, the
\* short-form title is the first 90 characters of the trimmed highlight
\* followed by " #Shorts", and it is no longer than 100 characters.
C13_TruncatedExactly ==
  (tpc = "sent" /\ short_form_highlight.kind = "str"
     /\ Len(Strip(short_form_highlight.text)) > ShortTitleMax) =>
    /\ sent_title
         = SubSeq(Strip(short_form_highlight.text), 1, ShortTitleMax) \o Suffix
    /\ Len(sent_title) <= 100

\* C13 (amended): for a highlight whose trimmed length exceeds 90, the
\* short-form title is a prefix of the trimmed highlight followed by
\* " #Shorts"; the prefix ends at the last character among the first 90 that
\* is not whitespace, so it is exactly 90 characters long when the 90th
\* character is not whitespace; the title built and the title given to the
\* upload are the same and no longer than 100 characters.
C13_TruncatedThenTrimmed ==
  (tpc \in {"upload", "sent"} /\ short_form_highlight.kind = "str"
     /\ Len(Strip(short_form_highlight.text)) > ShortTitleMax) =>
    LET t == Strip(short_form_highlight.text)
    IN  /\ \E n \in 1..ShortTitleMax :
             /\ short_title = SubSeq(t, 1, n) \o Suffix
             /\ ~IsSpace(t[n])
             /\ \A i \in (n + 1)..ShortTitleMax : IsSpace(t[i])
        /\ ~IsSpace(t[ShortTitleMax]) =>
             Len(short_title) = ShortTitleMax + Len(Suffix)
        /\ Len(short_title) <= 100
        /\ tpc = "sent" => sent_title = short_title

\* a padded highlight of more than 90 characters has been cut to 90 and sent
C13_Witness ==
  /\ tpc = "sent"
  /\ short_form_highlight.kind = "str"
  /\ Len(short_form_highlight.text) > Len(Strip(short_form_highlight.text))
  /\ Len(Strip(short_form_highlight.text)) > ShortTitleMax
  /\ Len(sent_title) = ShortTitleMax + Len(Suffix)

\* C14 (as claimed): the title is built from "AI Quick Tip: <lesson title>"
\* exactly when the highlight is missing or empty after trimming; the
\* fallback is cut and suffixed like a highlight; a highlight that is not
\* empty after trimming is the start of its title.
C14_FallbackIffEmpty ==
  tpc \in {"sent", "raised"} =>
    LET empty == \/ short_form_highlight.kind \in {"absent", "none"}
                 \/ Strip(short_form_highlight.text) = <<>>
        fallback == FallbackPrefix \o title
    IN  /\ empty <=> (tpc = "sent" /\ StartsWith(sent_title, FallbackPrefix))
        /\ empty =>
             /\ tpc = "sent"
             /\ \E n \in 1..ShortTitleMax :
                  sent_title = SubSeq(fallback, 1, n) \o Suffix
        /\ ~empty =>
             /\ tpc = "sent"
             /\ \E n \in 1..ShortTitleMax :
                  sent_title
                    = SubSeq(Strip(short_form_highlight.text), 1, n) \o Suffix

\* C15 (as claimed): a lesson whose attempt saw create_video raise or return
\* False, for the long-form or the short-form video, is pending with no
\* youtube_id in the plan when the attempt ends and in the document when the
\* run has ended.
C15_AssemblyFailureLeavesPending ==
  /\ (pc = "except_lesson"
        /\ calls[Len(calls)][1] \in {"create_video_long", "create_video_short"}) =>
       plan[Cur] = Lesson("pending", Null)
  /\ (pc = "done" /\ fatal = "none") =>
       \A j \in 1..Len(outcomes) :
         ~outcomes[j][3] =>
           /\ disk.wf
           /\ disk.lessons[attempted[j]] = <<"pending", Null>>

\* C16 (as claimed): once the plan is loaded nothing aborts the run: when the
\* run has left the for loop, every selected lesson has been passed to
\* produce_lesson_videos, whatever failed during the attempts and the saves.
C16_OnlySetupAborts ==
  (LoopLeft /\ startPlan # NoPlan) => attempted = selected

\* C17 (as claimed): when the production of a second or later lesson of a
\* run starts, time.sleep has been called since the save of the lesson
\* before it returned.
C17_CooldownBetweenLessons ==
  (pc = "content" /\ Len(attempted) >= 2) => slept

\* the entry of lesson i holds a youtube_id exactly when it is complete, and
\* the youtube_id is the one the long-form upload of lesson i returns
Marked(status, youtube_id, i) ==
  /\ youtube_id # Null <=> status = "complete"
  /\ youtube_id # Null => youtube_id = VideoId("long", i)

\* C18: every entry of the plan in memory, of the document (also of one that
\* is being written) and of the last document written to its end holds a
\* youtube_id exactly when its status is complete, and that youtube_id is
\* the identifier the long-form upload returned for that lesson; the
\* identifier main() is about to store was returned by the long-form upload
\* of the attempt.
C18_IdIffComplete ==
  /\ plan # NoPlan =>
       \A i \in 1..Len(plan) : Marked(plan[i].status, plan[i].youtube_id, i)
  /\ \A i \in 1..Len(disk.lessons) :
       Marked(disk.lessons[i][1], disk.lessons[i][2], i)
  /\ \A i \in 1..Len(lastSaved.lessons) :
       Marked(lastSaved.lessons[i][1], lastSaved.lessons[i][2], i)
  /\ (pc = "assign" /\ video_id # Null) =>
       \E q \in 1..Len(calls) : calls[q] = <<"upload_long", video_id>>

\* after two runs the second lesson is complete under its long-form
\* identifier, in memory and in the document, and the third one is pending
C18_Witness ==
  /\ pc = "done"
  /\ disk.wf
  /\ plan # NoPlan
  /\ plan[2] = Lesson("complete", VideoId("long", 2))
  /\ disk.lessons[2] = <<"complete", VideoId("long", 2)>>
  /\ disk.lessons[3] = <<"pending", Null>>

====
